---------------------------- MODULE Spec2Model ----------------------------
(***************************************************************************)
(* Lumina: a client-side note workspace (React).  The model covers the     *)
(* application state container (src/App.tsx) and the note editor          *)
(* (src/components/NoteEditor.tsx).                                        *)
(*                                                                         *)
(* NoteEditor.tsx holds two versions of the editor component.  The first   *)
(* (lines 1-639) is page-aware; the second (lines 641-1190) has no pages   *)
(* but carries the undo/redo buttons and the four-status task filter.      *)
(* The handlers modelled here are those of the first version unless a      *)
(* definition says otherwise; handlers that are identical in both versions *)
(* are modelled once.                                                      *)
(*                                                                         *)
(* React semantics used throughout: a handler created by a render closes   *)
(* over that render's props and state.  A synchronous handler therefore    *)
(* reads the current note; the continuation of an async handler reads the  *)
(* note and the note collection of the render that started it.             *)
(*                                                                         *)
(* JavaScript values: an absent optional string is "", an absent           *)
(* activePageIndex is NoIndex, an absent pages field is hasPages = FALSE.  *)
(* Array indices are 0-based as in the source; TLA+ sequences are 1-based. *)
(***************************************************************************)
EXTENDS Integers, Sequences, FiniteSets, TLC

VARIABLES
  notes,              \* App: useState<Note[]>
  activeNoteId,       \* App: useState<string | null>, NoId for null
  isLoading,          \* App: useState(true)
  currentTheme,       \* App: useState<ThemeId>('onyx')
  customCategories,   \* App: useState<string[]>
  storage,            \* localStorage: the three records
  history,            \* NoteEditor: historyRef.current = {undo, redo}
  isUndoRedoAction,   \* NoteEditor: isUndoRedoAction.current
  saveStatus,         \* NoteEditor: useState<SaveStatus>('idle')
  saveTimeout,        \* NoteEditor: the timer of saveTimeoutRef is pending
  displayTimers,      \* NoteEditor: pending inner setTimeout(.., 3000) calls
  newTaskText,        \* NoteEditor: useState('') of the task-entry field
  newTaskImportance,  \* NoteEditor: useState<Importance>(MEDIUM)
  taskFilter,         \* NoteEditor: useState<TaskFilter>('all')
  isAnalyzing,        \* NoteEditor: useState(false)
  call,               \* the analyzeNote call in flight and its closure
  now,                \* Date.now(); the clock is not advanced
  created,            \* the number of crypto.randomUUID() calls so far
  undoCalls,          \* history variable: the undo() and redo() calls counted
  lastOp              \* history variable: the handler that ran last

vars == <<notes, activeNoteId, isLoading, currentTheme, customCategories,
          storage, history, isUndoRedoAction, saveStatus, saveTimeout,
          displayTimers, newTaskText, newTaskImportance, taskFilter,
          isAnalyzing, call, now, created, undoCalls, lastOp>>

appVars    == <<isLoading, currentTheme, customCategories>>
entryVars  == <<newTaskText, newTaskImportance, taskFilter>>
timerVars  == <<saveStatus, saveTimeout, displayTimers>>
histVars   == <<history, isUndoRedoAction>>

-----------------------------------------------------------------------------
(* Bounds of the model *)

MaxPages == 3        \* addPage is offered while a note has fewer pages
MaxUndoDepth == 2    \* tracked edits are offered while undo is shallower
MaxUndoCalls == 2    \* undo() and redo() calls counted by SpecCap
MaxTasks == 2        \* tasks are added while a note has fewer tasks
MaxCreated == 2      \* crypto.randomUUID() is called at most so often
MaxDisplayTimers == 2  \* display delays of the save indicator pending at once

(* Program constants *)

HISTORY_LIMIT == 50
NoId == 0
NoIndex == -1
ImplicitPageId == 0

-----------------------------------------------------------------------------
(* Generic helpers *)

Last(s) == s[Len(s)]
Front(s) == SubSeq(s, 1, Len(s) - 1)
Range(s) == {s[i] : i \in DOMAIN s}

\* The index of the first element of s with the given id, 0 when none
\* (Array.prototype.find / findIndex on ids)
FirstWithId(s, id) ==
  IF \E i \in DOMAIN s : s[i].id = id
  THEN CHOOSE i \in DOMAIN s : s[i].id = id /\ \A j \in 1..(i - 1) : s[j].id # id
  ELSE 0

\* s.filter((_, i) => i !== index), index 0-based
RemoveAt(s, index) ==
  [k \in 1..(IF index >= 0 /\ index < Len(s) THEN Len(s) - 1 ELSE Len(s)) |->
     IF index >= 0 /\ k >= index + 1 THEN s[k + 1] ELSE s[k]]

-----------------------------------------------------------------------------
(* Notes and pages *)

Hole == [id |-> -1, title |-> "<hole>", content |-> "<hole>"]

\* handleCreateNote's literal: no pages, no activePageIndex, no isArchived
NewNote(id, category, t) ==
  [id |-> id, title |-> "", content |-> "", category |-> category,
   updatedAt |-> t, tasks |-> <<>>, tags |-> <<>>,
   hasPages |-> FALSE, pages |-> <<>>, activePageIndex |-> NoIndex,
   isArchived |-> FALSE]

NoNote == NewNote(NoId, "", 0)

\* const activeNote = notes.find(n => n.id === activeNoteId)
ActiveNote ==
  IF FirstWithId(notes, activeNoteId) = 0 THEN NoNote
  ELSE notes[FirstWithId(notes, activeNoteId)]

EditorMounted == ~isLoading /\ activeNoteId # NoId /\ ActiveNote.id # NoId

\* const pages = note.pages || [{ id: 'page-1', title: 'Main', content: note.content || '' }]
pagesOf(note) ==
  IF note.hasPages THEN note.pages
  ELSE <<[id |-> ImplicitPageId, title |-> "Main", content |-> note.content]>>

\* const activePageIndex = note.activePageIndex ?? 0
activePageIndexOf(note) ==
  IF note.activePageIndex = NoIndex THEN 0 ELSE note.activePageIndex

\* pages[i] of a JavaScript array: undefined (Hole) outside the array
At(ps, i) == IF i >= 0 /\ i < Len(ps) THEN ps[i + 1] ELSE Hole

\* const currentPage = pages[activePageIndex] || pages[0]
currentPageOf(note) ==
  LET ps == pagesOf(note)
      p == At(ps, activePageIndexOf(note))
  IN IF p # Hole THEN p ELSE At(ps, 0)

\* updatedPages[i] = v on a copy of the array: writing past the end extends
\* the array and leaves holes
SetAt(ps, i, v) ==
  [k \in 1..(IF i + 1 > Len(ps) THEN i + 1 ELSE Len(ps)) |->
     IF k = i + 1 THEN v ELSE IF k <= Len(ps) THEN ps[k] ELSE Hole]

\* setNotes(notes.map(n => n.id === updatedNote.id ? updatedNote : n))
handleUpdateNote(ns, updatedNote) ==
  [i \in DOMAIN ns |-> IF ns[i].id = updatedNote.id THEN updatedNote ELSE ns[i]]

-----------------------------------------------------------------------------
(* Edit history *)

Snapshot(note) ==
  [title |-> note.title, content |-> note.content, tags |-> note.tags,
   pages |-> IF note.hasPages THEN note.pages ELSE <<>>]

\* The snapshot spread over nothing: { ...snapshot, updatedAt: Date.now() }
ApplySnapshotAlone(note, s, t) ==
  [note EXCEPT !.title = s.title, !.content = s.content, !.tags = s.tags,
               !.hasPages = TRUE, !.pages = s.pages, !.updatedAt = t,
               !.tasks = <<>>, !.category = "", !.isArchived = FALSE]

\* { ...note, ...snapshot, updatedAt: Date.now() }
ApplySnapshot(note, s, t) ==
  [note EXCEPT !.title = s.title, !.content = s.content, !.tags = s.tags,
               !.hasPages = TRUE, !.pages = s.pages, !.updatedAt = t]

\* saveHistory without the shift of line 91: the stack grows without limit
saveHistoryUncapped(h, flag, oldNote) ==
  IF flag
  THEN [history |-> h, flag |-> FALSE, recorded |-> FALSE]
  ELSE [history |-> [undo |-> Append(h.undo, Snapshot(oldNote)), redo |-> <<>>],
        flag |-> FALSE, recorded |-> TRUE]

\* The result of saveHistory(oldNote) on the history h and the suppress flag
saveHistory(h, flag, oldNote) ==
  IF flag
  THEN [history |-> h, flag |-> FALSE, recorded |-> FALSE]
  ELSE LET pushed == Append(h.undo, Snapshot(oldNote))
       IN [history |-> [undo |-> IF Len(pushed) > HISTORY_LIMIT
                                 THEN Tail(pushed) ELSE pushed,
                        redo |-> <<>>],
           flag |-> FALSE, recorded |-> TRUE]

\* undo(): the history, the flag and the note handed to onUpdate
undo(h, note, t) ==
  [history |-> [undo |-> Front(h.undo),
                redo |-> Append(h.redo, Snapshot(note))],
   flag |-> TRUE,
   note |-> ApplySnapshot(note, Last(h.undo), t)]

redo(h, note, t) ==
  [history |-> [undo |-> Append(h.undo, Snapshot(note)),
                redo |-> Front(h.redo)],
   flag |-> TRUE,
   note |-> ApplySnapshot(note, Last(h.redo), t)]

-----------------------------------------------------------------------------
(* Strings as sequences of one-character strings *)

UpperCase == <<"A","B","C","D","E","F","G","H","I","J","K","L","M",
               "N","O","P","Q","R","S","T","U","V","W","X","Y","Z">>
LowerCase == <<"a","b","c","d","e","f","g","h","i","j","k","l","m",
               "n","o","p","q","r","s","t","u","v","w","x","y","z">>
Digits == {"0","1","2","3","4","5","6","7","8","9"}

\* String.prototype.toLowerCase, one character
LowerChar(c) ==
  IF \E i \in 1..26 : UpperCase[i] = c
  THEN LowerCase[CHOOSE i \in 1..26 : UpperCase[i] = c]
  ELSE c

toLowerCase(s) == [i \in DOMAIN s |-> LowerChar(s[i])]

IsSpace(c) == c \in {" ", "\t", "\n"}

RECURSIVE trimStart(_)
trimStart(s) ==
  IF s # <<>> /\ IsSpace(Head(s)) THEN trimStart(Tail(s)) ELSE s

RECURSIVE trimEnd(_)
trimEnd(s) ==
  IF s # <<>> /\ IsSpace(Last(s)) THEN trimEnd(Front(s)) ELSE s

\* String.prototype.trim
trim(s) == trimEnd(trimStart(s))

-----------------------------------------------------------------------------
(* The save indicator *)

\* triggerSaveIndicator(): 'saving', clear the pending timer, start a new one
triggerSaveIndicator ==
  /\ saveStatus' = "saving"
  /\ saveTimeout' = TRUE
  /\ UNCHANGED displayTimers

-----------------------------------------------------------------------------
(* The history variable lastOp: the handler that ran last, its argument, and *)
(* what it found: the active page index, the lengths of the two stacks and  *)
(* the suppress flag                                                         *)

Found(op, arg, was) ==
  [op |-> op, arg |-> arg, was |-> was, depth |-> Len(history.undo),
   redoDepth |-> Len(history.redo), flag |-> isUndoRedoAction]

DidWith(op, arg, was) == lastOp' = Found(op, arg, was)

Did(op) == DidWith(op, 0, 0)

-----------------------------------------------------------------------------
(* Inputs: what the user types and what storage may hold *)

Titles == {"", "Plan"}
Contents == {"", "draft notes"}
TagInputs == {<<"x">>, <<" ", "X">>}

\* A note as handleCreateNote makes it and JSON.stringify stores it
PagelessNote ==
  [NewNote(1, "General", 0) EXCEPT !.title = "Plan", !.content = "draft notes"]
\* A note as the Sidebar's text import makes it
PagedNote ==
  [NewNote(2, "General", 0) EXCEPT
     !.hasPages = TRUE,
     !.pages = <<[id |-> 3, title |-> "Main", content |-> ""]>>,
     !.activePageIndex = 0]

\* The largest identifier among the stored sample notes and their pages
StoredIdsEnd == PagedNote.pages[1].id

-----------------------------------------------------------------------------
(* The application state container *)

ThemeIds == {"onyx", "quartz", "midnight", "forest", "matrix", "arcade", "nebula"}

\* Property names every object literal inherits from Object.prototype
ObjectPrototypeKeys ==
  {"constructor", "toString", "toLocaleString", "valueOf", "hasOwnProperty",
   "isPrototypeOf", "propertyIsEnumerable", "__proto__"}

\* Whether THEME_CONFIGS[key] is truthy: an own palette or an inherited member
themeConfigTruthy(key) == key \in ThemeIds \/ key \in ObjectPrototypeKeys

NoResult == [ok |-> FALSE, suggestedTasks |-> <<>>]

NoCall == [active |-> FALSE, note |-> NoNote, notes |-> <<>>, content |-> ""]
EmptyHistory == [undo |-> <<>>, redo |-> <<>>]

\* A stored JSON record: absent (getItem gives null), corrupt (JSON.parse
\* throws) or the array the application wrote
Absent == [kind |-> "absent", value |-> <<>>]
Corrupt == [kind |-> "corrupt", value |-> <<>>]
Stored(v) == [kind |-> "array", value |-> v]

\* The state of a freshly mounted NoteEditor (its useState and useRef
\* initialisers)
EditorFresh ==
  /\ history' = EmptyHistory
  /\ isUndoRedoAction' = FALSE
  /\ saveStatus' = "idle"
  /\ saveTimeout' = FALSE
  /\ displayTimers' = 0
  /\ newTaskText' = <<>>
  /\ newTaskImportance' = "Medium"
  /\ taskFilter' = "all"
  /\ isAnalyzing' = FALSE

\* The note.id effect without line 66: the history follows to the next note
NoteIdEffectKeepsHistory ==
  /\ saveStatus' = "idle"
  /\ UNCHANGED <<history, isUndoRedoAction, saveTimeout, displayTimers, entryVars,
                 isAnalyzing>>

\* useEffect(.., [note.id]) of a mounted editor whose note changed
NoteIdEffect ==
  /\ history' = EmptyHistory
  /\ saveStatus' = "idle"
  /\ UNCHANGED <<isUndoRedoAction, saveTimeout, displayTimers, entryVars, isAnalyzing>>

\* The editor after the active note became id: mounted afresh when no editor
\* was shown, the note.id effect when one was, untouched when id is the same
EditorAfterSelect(id) ==
  IF id = NoId \/ ~EditorMounted THEN EditorFresh
  ELSE IF id # activeNoteId THEN NoteIdEffect
  ELSE UNCHANGED <<histVars, timerVars, entryVars, isAnalyzing>>

\* The effect on [notes, isLoading] with an empty dependency list: it runs on
\* mount only, while loading, and writes nothing afterwards
WriteNotesOnMountOnly == UNCHANGED storage

\* The effect on [notes, isLoading], run after setNotes once loading is over:
\* localStorage.setItem(STORAGE_KEY, JSON.stringify(notes))
WriteNotes == storage' = [storage EXCEPT !.notes = Stored(notes')]

\* The mount effect of App (useEffect(.., [])); its three state updates are
\* rendered together and the three write effects run, isLoading being false
Load ==
  /\ isLoading
  /\ LET parsed == storage.notes.value
         loaded == storage.notes.kind = "array"
         firstNonArchived ==
           IF \E i \in DOMAIN parsed : ~parsed[i].isArchived
           THEN parsed[CHOOSE i \in DOMAIN parsed :
                         /\ ~parsed[i].isArchived
                         /\ \A j \in 1..(i - 1) : parsed[j].isArchived].id
           ELSE NoId
     IN /\ notes' = IF loaded THEN parsed ELSE notes
        /\ activeNoteId' = IF loaded /\ Len(parsed) > 0 /\ firstNonArchived # NoId
                           THEN firstNonArchived ELSE activeNoteId
  /\ customCategories' = IF storage.cats.kind = "array"
                         THEN storage.cats.value ELSE customCategories
  /\ currentTheme' = IF storage.theme # "" /\ themeConfigTruthy(storage.theme)
                     THEN storage.theme ELSE currentTheme
  /\ isLoading' = FALSE
  /\ storage' = [notes |-> Stored(notes'), theme |-> currentTheme',
                 cats |-> Stored(customCategories')]
  /\ EditorFresh
  /\ UNCHANGED <<call, now, created, undoCalls>>
  /\ Did("load")

\* Sidebar: onSelectNote(note.id) = setActiveNoteId
SelectNote(id) ==
  /\ ~isLoading
  /\ \E i \in DOMAIN notes : notes[i].id = id
  /\ id # activeNoteId
  /\ activeNoteId' = id
  /\ EditorAfterSelect(id)
  /\ UNCHANGED <<notes, appVars, storage, call, now, created, undoCalls>>
  /\ Did("selectNote")

\* crypto.randomUUID(): identifiers are opaque and never repeat; the n-th
\* call gives the n-th identifier above those of the stored notes
FreshId == StoredIdsEnd + created + 1

CanCreate == created < MaxCreated

-----------------------------------------------------------------------------
(* The editor's handlers: documents, pages and tags *)

note == ActiveNote

\* What a handler reads and writes besides the indicator: the history, the
\* suppress flag and the note
Es == [history |-> history, flag |-> isUndoRedoAction, note |-> note]

handleTitleChange(n, value, t) == [n EXCEPT !.title = value, !.updatedAt = t]

handlePageContentChange(n, value, t) ==
  LET updatedPages == SetAt(pagesOf(n), activePageIndexOf(n),
                            [currentPageOf(n) EXCEPT !.content = value])
      first == At(updatedPages, 0)
  IN [n EXCEPT !.hasPages = TRUE, !.pages = updatedPages,
               !.content = IF first = Hole THEN "" ELSE first.content,
               !.updatedAt = t]

\* const newTag = tagInput.trim().toLowerCase()
newTagOf(tagInput) == toLowerCase(trim(tagInput))

handleAddTag(n, newTag, t) == [n EXCEPT !.tags = Append(n.tags, newTag), !.updatedAt = t]

removeTag(n, tag, t) ==
  [n EXCEPT !.tags = SelectSeq(n.tags, LAMBDA x : x # tag), !.updatedAt = t]

addPage(n, id, t) ==
  LET ps == pagesOf(n)
      newPage == [id |-> id, title |-> "Page " \o ToString(Len(ps) + 1), content |-> ""]
      updatedPages == Append(ps, newPage)
  IN [n EXCEPT !.hasPages = TRUE, !.pages = updatedPages,
               !.activePageIndex = Len(updatedPages) - 1, !.updatedAt = t]

\* closePage without the clamp of line 161: the index may dangle
closePageUnclamped(n, index, t) ==
  [n EXCEPT !.hasPages = TRUE, !.pages = RemoveAt(pagesOf(n), index),
            !.activePageIndex = activePageIndexOf(n), !.updatedAt = t]

closePage(n, index, t) ==
  LET updatedPages == RemoveAt(pagesOf(n), index)
      newIndex == IF activePageIndexOf(n) >= Len(updatedPages)
                  THEN Len(updatedPages) - 1 ELSE activePageIndexOf(n)
  IN [n EXCEPT !.hasPages = TRUE, !.pages = updatedPages,
               !.activePageIndex = newIndex, !.updatedAt = t]

\* The guard of closePage off by one: the only page can be closed
closePageRefusedWhenEmpty(n) == Len(pagesOf(n)) < 1

\* if (pages.length <= 1) return
closePageRefused(n) == Len(pagesOf(n)) <= 1

switchPage(n, index, t) == [n EXCEPT !.activePageIndex = index, !.updatedAt = t]

\* A user edit e = [kind, value] that the editor accepts in the state es
EditEnabled(es, e) ==
  CASE e.kind = "title" -> e.value # es.note.title
    [] e.kind = "content" -> /\ currentPageOf(es.note) # Hole
                             /\ e.value # currentPageOf(es.note).content
    [] e.kind = "addTag" -> /\ trim(e.value) # <<>>
                            /\ newTagOf(e.value) \notin Range(es.note.tags)
    [] e.kind = "removeTag" -> e.value \in Range(es.note.tags)
    [] e.kind = "addPage" -> TRUE
    [] e.kind = "closePage" -> /\ ~closePageRefused(es.note)
                               /\ e.value \in 0..(Len(pagesOf(es.note)) - 1)
    [] OTHER -> FALSE

\* The note the handler of edit e hands to onUpdate
Edited(n, e, id, t) ==
  CASE e.kind = "title" -> handleTitleChange(n, e.value, t)
    [] e.kind = "content" -> handlePageContentChange(n, e.value, t)
    [] e.kind = "addTag" -> handleAddTag(n, newTagOf(e.value), t)
    [] e.kind = "removeTag" -> removeTag(n, e.value, t)
    [] e.kind = "addPage" -> addPage(n, id, t)
    [] e.kind = "closePage" -> closePage(n, e.value, t)

\* A handler that records history: saveHistory(note), then onUpdate(..)
EditCall(es, e, id, t) ==
  LET sh == saveHistory(es.history, es.flag, es.note)
  IN [history |-> sh.history, flag |-> sh.flag, note |-> Edited(es.note, e, id, t)]

\* undo(): if (history.undo.length === 0) return
UndoCall(es, t) ==
  IF es.history.undo = <<>> THEN es ELSE undo(es.history, es.note, t)

\* redo(): if (history.redo.length === 0) return
RedoCall(es, t) ==
  IF es.history.redo = <<>> THEN es ELSE redo(es.history, es.note, t)

\* The editor state es' replaces the current one and the indicator is triggered
Commit(es) ==
  /\ history' = es.history
  /\ isUndoRedoAction' = es.flag
  /\ notes' = handleUpdateNote(notes, es.note)
  /\ WriteNotes
  /\ triggerSaveIndicator

Refused == UNCHANGED <<notes, storage, histVars, timerVars>>

EditorFrame == UNCHANGED <<activeNoteId, appVars, entryVars, isAnalyzing, call, now>>

Frame == EditorFrame /\ UNCHANGED undoCalls

RecordedEdit(e, op) ==
  /\ EditorMounted
  /\ EditEnabled(Es, e)
  /\ Commit(EditCall(Es, e, FreshId, now))
  /\ created' = IF e.kind = "addPage" THEN created + 1 ELSE created
  /\ Frame
  /\ Did(op)

HandleTitleChange(value) ==
  RecordedEdit([kind |-> "title", value |-> value], "handleTitleChange")

HandlePageContentChange(value) ==
  RecordedEdit([kind |-> "content", value |-> value], "handlePageContentChange")

HandleAddTag(tagInput) ==
  \/ RecordedEdit([kind |-> "addTag", value |-> tagInput], "handleAddTag")
  \/ /\ EditorMounted
     /\ trim(tagInput) # <<>>
     /\ newTagOf(tagInput) \in Range(note.tags)
     /\ Refused
     /\ Frame
     /\ UNCHANGED created
     /\ Did("handleAddTagDuplicate")

RemoveTag(tag) ==
  RecordedEdit([kind |-> "removeTag", value |-> tag], "removeTag")

AddPage ==
  /\ Len(pagesOf(note)) < MaxPages
  /\ CanCreate
  /\ RecordedEdit([kind |-> "addPage", value |-> 0], "addPage")

ClosePage(index) ==
  /\ EditorMounted
  /\ index \in 0..(Len(pagesOf(note)) - 1)
  /\ IF closePageRefused(note)
     THEN Refused
     ELSE Commit(EditCall(Es, [kind |-> "closePage", value |-> index], FreshId, now))
  /\ Frame
  /\ UNCHANGED created
  /\ DidWith("closePage", index, activePageIndexOf(note))

SwitchPage(index) ==
  /\ EditorMounted
  /\ index \in 0..(Len(pagesOf(note)) - 1)
  /\ index # activePageIndexOf(note)
  /\ notes' = handleUpdateNote(notes, switchPage(note, index, now))
  /\ WriteNotes
  /\ UNCHANGED <<histVars, timerVars, created>>
  /\ Frame
  /\ Did("switchPage")

UndoStep ==
  /\ EditorMounted
  /\ IF history.undo = <<>> THEN Refused ELSE Commit(UndoCall(Es, now))
  /\ EditorFrame
  /\ UNCHANGED created
  /\ Did("undo")

RedoStep ==
  /\ EditorMounted
  /\ IF history.redo = <<>> THEN Refused ELSE Commit(RedoCall(Es, now))
  /\ EditorFrame
  /\ UNCHANGED created
  /\ Did("redo")

Undo == UndoStep /\ UNCHANGED undoCalls

Redo == RedoStep /\ UNCHANGED undoCalls

\* undo() and redo() while fewer than MaxUndoCalls calls were counted
CountedUndo == undoCalls < MaxUndoCalls /\ UndoStep /\ undoCalls' = undoCalls + 1

CountedRedo == undoCalls < MaxUndoCalls /\ RedoStep /\ undoCalls' = undoCalls + 1

-----------------------------------------------------------------------------
(* The timers of the save indicator *)

\* The callback of the timer of saveTimeoutRef (1000 ms): 'saved', and the
\* display delay (3000 ms) is started
\* The debounce timer's callback without its inner setTimeout: 'saved' stays
SaveTimeoutFiresNoDelay ==
  /\ saveTimeout
  /\ displayTimers < MaxDisplayTimers
  /\ saveStatus' = "saved"
  /\ saveTimeout' = FALSE
  /\ UNCHANGED displayTimers
  /\ UNCHANGED <<notes, activeNoteId, appVars, storage, histVars, entryVars, isAnalyzing,
                 call, now, created, undoCalls>>
  /\ Did("saveTimeoutFires")

SaveTimeoutFires ==
  /\ saveTimeout
  /\ displayTimers < MaxDisplayTimers
  /\ saveStatus' = "saved"
  /\ saveTimeout' = FALSE
  /\ displayTimers' = displayTimers + 1
  /\ UNCHANGED <<notes, activeNoteId, appVars, storage, histVars, entryVars, isAnalyzing,
                 call, now, created, undoCalls>>
  /\ Did("saveTimeoutFires")

\* The callback of a display delay: 'idle'
DisplayDelayElapses ==
  /\ displayTimers > 0
  /\ saveStatus' = "idle"
  /\ displayTimers' = displayTimers - 1
  /\ UNCHANGED <<notes, activeNoteId, appVars, storage, histVars, saveTimeout, entryVars,
                 isAnalyzing, call, now, created, undoCalls>>
  /\ Did("displayDelayElapses")

-----------------------------------------------------------------------------
(* Tasks *)

PENDING == "Pending"
COMPLETED == "Completed"
DROPPED == "Dropped"
CANCELLED == "Cancelled"
TaskStatus == {PENDING, COMPLETED, DROPPED, CANCELLED}

LOW == "Low"
MEDIUM == "Medium"
HIGH == "High"
CRITICAL == "Critical"
Importance == {LOW, MEDIUM, HIGH, CRITICAL}

\* The task addTask and handleAnalyze build
NewTask(id, text, importance, t) ==
  [id |-> id, text |-> text, completed |-> FALSE, status |-> PENDING,
   importance |-> importance, createdAt |-> t]

\* if (!text.trim()) return
addTaskRefused(text) == trim(text) = <<>>

addTask(n, text, importance, id, t) ==
  [n EXCEPT !.tasks = Append(n.tasks, NewTask(id, trim(text), importance, t)),
            !.updatedAt = t]

\* updateTaskStatus writing status alone: completed goes stale
updateTaskStatusStale(n, taskId, status, t) ==
  [n EXCEPT !.tasks = [i \in DOMAIN n.tasks |->
                         IF n.tasks[i].id = taskId
                         THEN [n.tasks[i] EXCEPT !.status = status]
                         ELSE n.tasks[i]],
            !.updatedAt = t]

updateTaskStatus(n, taskId, status, t) ==
  [n EXCEPT !.tasks = [i \in DOMAIN n.tasks |->
                         IF n.tasks[i].id = taskId
                         THEN [n.tasks[i] EXCEPT !.status = status,
                                                 !.completed = (status = COMPLETED)]
                         ELSE n.tasks[i]],
            !.updatedAt = t]

deleteTask(n, taskId, t) ==
  [n EXCEPT !.tasks = SelectSeq(n.tasks, LAMBDA task : task.id # taskId),
            !.updatedAt = t]

\* analyzeNote: null for a content shorter than 10 characters; otherwise
\* null (no API key, any error) or what the service answers
analyzeNote(content, answers) ==
  IF content = "" \/ Len(content) < 10 THEN {NoResult} ELSE {NoResult} \cup answers

\* handleAnalyze after the await: the suggestions kept, on the note closed over
suggestionsKept(closed, result) ==
  LET currentTaskTexts == {toLowerCase(closed.tasks[i].text) : i \in DOMAIN closed.tasks}
  IN SelectSeq(result.suggestedTasks,
               LAMBDA st : toLowerCase(st.text) \notin currentTaskTexts)

\* .. and the note handed to onUpdate when newTasks.length > 0
analysisApplied(closed, result, firstId, t) ==
  LET kept == suggestionsKept(closed, result)
      newTasks == [i \in DOMAIN kept |->
                     NewTask(firstId + i - 1, kept[i].text, kept[i].importance, t)]
  IN [closed EXCEPT !.tasks = closed.tasks \o newTasks, !.updatedAt = t]

-----------------------------------------------------------------------------
(* The displayed task list (second editor version) *)

TaskFilters == {"all", "pending", "completed", "dropped", "cancelled"}

\* t.status || (t.completed ? COMPLETED : PENDING); an absent status is ""
effectiveStatus(task) ==
  IF task.status # "" THEN task.status
  ELSE IF task.completed THEN COMPLETED ELSE PENDING

getPriorityScore(importance) ==
  CASE importance = CRITICAL -> 4
    [] importance = HIGH -> 3
    [] importance = MEDIUM -> 2
    [] importance = LOW -> 1
    [] OTHER -> 0

filteredTasks(tasks, filter) ==
  SelectSeq(tasks, LAMBDA task :
    CASE filter = "pending" -> effectiveStatus(task) = PENDING
      [] filter = "completed" -> effectiveStatus(task) = COMPLETED
      [] filter = "dropped" -> effectiveStatus(task) = DROPPED
      [] filter = "cancelled" -> effectiveStatus(task) = CANCELLED
      [] OTHER -> TRUE)

\* The comparator without its status test: importance before Pending
compareTasksByScore(a, b) ==
  IF getPriorityScore(a.importance) # getPriorityScore(b.importance)
  THEN getPriorityScore(b.importance) - getPriorityScore(a.importance)
  ELSE b.createdAt - a.createdAt

\* The comparator handed to sort: negative when a goes first
compareTasks(a, b) ==
  LET statusA == effectiveStatus(a)
      statusB == effectiveStatus(b)
      scoreA == getPriorityScore(a.importance)
      scoreB == getPriorityScore(b.importance)
  IN IF statusA # statusB /\ statusA = PENDING THEN -1
     ELSE IF statusA # statusB /\ statusB = PENDING THEN 1
     ELSE IF scoreA # scoreB THEN scoreB - scoreA
     ELSE b.createdAt - a.createdAt

RECURSIVE InsertSorted(_, _)
\* Array.prototype.sort is stable: x goes behind every element that is not
\* to come after it
InsertSorted(s, x) ==
  IF s = <<>> THEN <<x>>
  ELSE IF compareTasks(Last(s), x) > 0
       THEN Append(InsertSorted(Front(s), x), Last(s))
       ELSE Append(s, x)

RECURSIVE Sort(_)
Sort(s) == IF s = <<>> THEN <<>> ELSE InsertSorted(Sort(Front(s)), Last(s))

\* const sortedTasks = [...filteredTasks].sort(..)
sortedTasks(tasks, filter) == Sort(filteredTasks(tasks, filter))

\* The filter buttons: setTaskFilter(filter)
SetTaskFilter(filter) ==
  /\ EditorMounted
  /\ filter # taskFilter
  /\ taskFilter' = filter
  /\ UNCHANGED <<notes, activeNoteId, appVars, storage, histVars, timerVars, newTaskText,
                 newTaskImportance, isAnalyzing, call, now, created, undoCalls>>
  /\ Did("setTaskFilter")

-----------------------------------------------------------------------------
(* detectImportance: the keyword tiers, as sequences of characters *)

CriticalWords ==
  {<<"u", "r", "g", "e", "n", "t">>,
   <<"a", "s", "a", "p">>,
   <<"c", "r", "i", "t", "i", "c", "a", "l">>,
   <<"e", "m", "e", "r", "g", "e", "n", "c", "y">>,
   <<"i", "m", "m", "e", "d", "i", "a", "t", "e", "l", "y">>,
   <<"i", "n", "s", "t", "a", "n", "t">>}

HighWords ==
  {<<"i", "m", "p", "o", "r", "t", "a", "n", "t">>,
   <<"p", "r", "i", "o", "r", "i", "t", "y">>,
   <<"h", "i", "g", "h">>,
   <<"m", "u", "s", "t">>,
   <<"v", "i", "t", "a", "l">>}

MediumWords ==
  {<<"m", "e", "d", "i", "u", "m">>,
   <<"n", "o", "r", "m", "a", "l">>,
   <<"s", "t", "a", "n", "d", "a", "r", "d">>,
   <<"r", "o", "u", "t", "i", "n", "e">>}

LowWords ==
  {<<"l", "o", "w">>,
   <<"l", "a", "t", "e", "r">>,
   <<"s", "o", "m", "e", "d", "a", "y">>,
   <<"m", "i", "n", "o", "r">>,
   <<"t", "r", "i", "v", "i", "a", "l">>}

\* \w of a JavaScript regular expression
IsWordChar(c) == c \in Range(LowerCase) \cup Range(UpperCase) \cup Digits \cup {"_"}

\* /\b(w)\b/ matches s at position i; every keyword begins and ends with a
\* word character, so \b asks for no word character on the other side
MatchesAt(s, i, w) ==
  /\ i + Len(w) - 1 <= Len(s)
  /\ SubSeq(s, i, i + Len(w) - 1) = w
  /\ (i = 1 \/ ~IsWordChar(s[i - 1]))
  /\ (i + Len(w) > Len(s) \/ ~IsWordChar(s[i + Len(w)]))

\* /\b(w1|w2|..)\b/.test(s)
TierTest(words, s) == \E w \in words : \E i \in 1..Len(s) : MatchesAt(s, i, w)

\* null
NoLevel == "null"

\* detectImportance testing the tiers in the opposite order
detectImportanceLowFirst(text) ==
  LET lower == toLowerCase(text)
  IN IF TierTest(LowWords, lower) THEN LOW
     ELSE IF TierTest(MediumWords, lower) THEN MEDIUM
     ELSE IF TierTest(HighWords, lower) THEN HIGH
     ELSE IF TierTest(CriticalWords, lower) THEN CRITICAL
     ELSE NoLevel

detectImportance(text) ==
  LET lower == toLowerCase(text)
  IN IF TierTest(CriticalWords, lower) THEN CRITICAL
     ELSE IF TierTest(HighWords, lower) THEN HIGH
     ELSE IF TierTest(MediumWords, lower) THEN MEDIUM
     ELSE IF TierTest(LowWords, lower) THEN LOW
     ELSE NoLevel

-----------------------------------------------------------------------------
(* The task handlers of the editor *)

TaskTexts == {<<" ", "x">>, <<>>}

\* What the analysis service may answer
Suggested(text) == [text |-> text, importance |-> HIGH]

Answers ==
  {[ok |-> TRUE, suggestedTasks |-> tasks] :
     tasks \in {<<>>, <<Suggested(<<"X">>)>>}}

\* onUpdate(..) and triggerSaveIndicator() of a handler that records no history
Update(updatedNote) ==
  /\ notes' = handleUpdateNote(notes, updatedNote)
  /\ WriteNotes
  /\ triggerSaveIndicator
  /\ UNCHANGED histVars

\* onChange of the task-entry field
TaskEntryChange(val) ==
  /\ EditorMounted
  /\ val # newTaskText
  /\ newTaskText' = val
  /\ newTaskImportance' = IF detectImportance(val) # NoLevel
                          THEN detectImportance(val) ELSE newTaskImportance
  /\ UNCHANGED <<notes, activeNoteId, appVars, storage, histVars, timerVars, taskFilter,
                 isAnalyzing, call, now, created, undoCalls>>
  /\ Did("taskEntryChange")

\* The importance buttons next to the task-entry field
SetNewTaskImportance(lvl) ==
  /\ EditorMounted
  /\ lvl # newTaskImportance
  /\ newTaskImportance' = lvl
  /\ UNCHANGED <<notes, activeNoteId, appVars, storage, histVars, timerVars, newTaskText,
                 taskFilter, isAnalyzing, call, now, created, undoCalls>>
  /\ Did("setNewTaskImportance")

TaskFrame == UNCHANGED <<activeNoteId, appVars, taskFilter, isAnalyzing, call, now,
                         undoCalls>>

\* addTask(newTaskText, newTaskImportance)
AddTask ==
  /\ EditorMounted
  /\ IF addTaskRefused(newTaskText)
     THEN UNCHANGED <<notes, storage, histVars, timerVars, newTaskText,
                      newTaskImportance, created>>
     ELSE /\ Update(addTask(note, newTaskText, newTaskImportance, FreshId, now))
          /\ newTaskText' = <<>>
          /\ newTaskImportance' = MEDIUM
          /\ created' = created + 1
  /\ TaskFrame
  /\ Did("addTask")

UpdateTaskStatus(taskId, status) ==
  /\ EditorMounted
  /\ Update(updateTaskStatus(note, taskId, status, now))
  /\ TaskFrame
  /\ UNCHANGED <<newTaskText, newTaskImportance, created>>
  /\ Did("updateTaskStatus")

DeleteTask(taskId) ==
  /\ EditorMounted
  /\ Update(deleteTask(note, taskId, now))
  /\ TaskFrame
  /\ UNCHANGED <<newTaskText, newTaskImportance, created>>
  /\ Did("deleteTask")

\* handleAnalyze up to the await: the call closes over note and, through
\* onUpdate = handleUpdateNote, over notes
HandleAnalyze ==
  /\ EditorMounted
  /\ ~isAnalyzing
  /\ ~call.active
  /\ currentPageOf(note) # Hole
  /\ currentPageOf(note).content # ""
  /\ isAnalyzing' = TRUE
  /\ call' = [active |-> TRUE, note |-> note, notes |-> notes,
              content |-> currentPageOf(note).content]
  /\ UNCHANGED <<notes, activeNoteId, appVars, storage, histVars, timerVars, entryVars, now,
                 created, undoCalls>>
  /\ Did("handleAnalyze")

\* handleAnalyze from the await on, with the result of analyzeNote
AnalyzeReturn(result) ==
  /\ call.active
  /\ result \in analyzeNote(call.content, Answers)
  /\ LET kept == suggestionsKept(call.note, result)
     IN /\ created + Len(kept) <= MaxCreated
        /\ created' = created + Len(kept)
        /\ notes' = IF result.ok /\ kept # <<>>
                    THEN handleUpdateNote(call.notes,
                                          analysisApplied(call.note, result, FreshId, now))
                    ELSE notes
        /\ IF result.ok /\ kept # <<>> THEN WriteNotes ELSE UNCHANGED storage
  /\ isAnalyzing' = FALSE
  /\ call' = NoCall
  /\ UNCHANGED <<activeNoteId, appVars, histVars, timerVars, entryVars, now, undoCalls>>
  /\ Did("analyzeReturn")

-----------------------------------------------------------------------------
(* The note lifecycle: the handlers of App and the editor controls that     *)
(* change the collection, the theme and the custom categories               *)

CATEGORIES == {"General", "Work", "Personal", "Ideas", "Learning", "Research",
               "Health", "Finance", "Projects"}

\* setNotes([newNote, ...notes]); category || 'General'
handleCreateNote(ns, id, category, t) ==
  <<NewNote(id, IF category = "" THEN "General" ELSE category, t)>> \o ns

\* notes.filter(n => n.id !== id)
handlePermanentDelete(ns, id) == SelectSeq(ns, LAMBDA n : n.id # id)

\* handleDeleteNote: the collection and the active id it leaves
handleDeleteNote(ns, active, id, t) ==
  LET noteToDelete == IF FirstWithId(ns, id) = 0 THEN NoNote
                      ELSE ns[FirstWithId(ns, id)]
  IN IF noteToDelete.isArchived
     THEN [notes |-> handlePermanentDelete(ns, id),
           active |-> IF active = id THEN NoId ELSE active]
     ELSE [notes |-> handleUpdateNote(ns, [noteToDelete EXCEPT !.isArchived = TRUE,
                                                              !.updatedAt = t]),
           active |-> NoId]

\* handleRestoreNote, for a note that notes.find gives
handleRestoreNote(ns, id, t) ==
  handleUpdateNote(ns, [ns[FirstWithId(ns, id)] EXCEPT !.isArchived = FALSE,
                                                      !.updatedAt = t])

\* setNotes(prev => [...importedNotes, ...prev])
handleImport(prev, importedNotes) == importedNotes \o prev

handleAddCategoryRefused(cats, name) == name \in Range(cats) \/ name \in CATEGORIES

handleAddCategory(cats, name) == Append(cats, name)

\* The note the Sidebar builds from a text file; the page id is made from
\* the note id
ImportedTextNote(id, t) ==
  [NewNote(id, "General", t) EXCEPT
     !.title = "file", !.content = "draft notes", !.tags = <<<<"i", "m", "p", "o", "r", "t", "e", "d">>>>,
     !.hasPages = TRUE,
     !.pages = <<[id |-> id, title |-> "Main", content |-> "draft notes"]>>,
     !.activePageIndex = 0]

\* The editor after a step of App: a fresh one when none was shown or none
\* is shown now, the note.id effect when the note shown has another id
EditorFollows ==
  IF ActiveNote'.id = NoId \/ ~EditorMounted THEN EditorFresh
  ELSE IF note'.id # note.id THEN NoteIdEffect
  ELSE UNCHANGED <<histVars, timerVars, entryVars, isAnalyzing>>

\* The effects on [currentTheme, isLoading] and [customCategories, isLoading]
WriteTheme == storage' = [storage EXCEPT !.theme = currentTheme']

WriteCats == storage' = [storage EXCEPT !.cats = Stored(customCategories')]

CreateNote(category) ==
  /\ ~isLoading
  /\ CanCreate
  /\ notes' = handleCreateNote(notes, FreshId, category, now)
  /\ activeNoteId' = FreshId
  /\ created' = created + 1
  /\ WriteNotes
  /\ EditorFollows
  /\ UNCHANGED <<appVars, call, now, undoCalls>>
  /\ DidWith("handleCreateNote", FreshId, 0)

DeleteNote(id) ==
  /\ ~isLoading
  /\ \E i \in DOMAIN notes : notes[i].id = id
  /\ notes' = handleDeleteNote(notes, activeNoteId, id, now).notes
  /\ activeNoteId' = handleDeleteNote(notes, activeNoteId, id, now).active
  /\ WriteNotes
  /\ EditorFollows
  /\ UNCHANGED <<appVars, call, now, created, undoCalls>>
  /\ DidWith("handleDeleteNote", id, 0)

PermanentDelete(id) ==
  /\ ~isLoading
  /\ \E i \in DOMAIN notes : notes[i].id = id
  /\ notes' = handlePermanentDelete(notes, id)
  /\ activeNoteId' = IF activeNoteId = id THEN NoId ELSE activeNoteId
  /\ WriteNotes
  /\ EditorFollows
  /\ UNCHANGED <<appVars, call, now, created, undoCalls>>
  /\ DidWith("handlePermanentDelete", id, 0)

RestoreNote(id) ==
  /\ ~isLoading
  /\ \E i \in DOMAIN notes : notes[i].id = id
  /\ notes' = handleRestoreNote(notes, id, now)
  /\ activeNoteId' = id
  /\ WriteNotes
  /\ EditorFollows
  /\ UNCHANGED <<appVars, call, now, created, undoCalls>>
  /\ DidWith("handleRestoreNote", id, 0)

\* Sidebar: a text file is read and handed to onImport
ImportText ==
  /\ ~isLoading
  /\ CanCreate
  /\ notes' = handleImport(notes, <<ImportedTextNote(FreshId, now)>>)
  /\ created' = created + 1
  /\ UNCHANGED <<activeNoteId, appVars, call, now, undoCalls>>
  /\ WriteNotes
  /\ EditorFollows
  /\ DidWith("handleImport", FreshId, 0)

\* Sidebar: onThemeChange(themeId) = setCurrentTheme
ThemeChange(themeId) ==
  /\ ~isLoading
  /\ themeId # currentTheme
  /\ currentTheme' = themeId
  /\ WriteTheme
  /\ UNCHANGED <<notes, activeNoteId, isLoading, customCategories, histVars, timerVars,
                 entryVars, isAnalyzing, call, now, created, undoCalls>>
  /\ Did("onThemeChange")

AddCategory(name) ==
  /\ ~isLoading
  /\ IF handleAddCategoryRefused(customCategories, name)
     THEN UNCHANGED <<customCategories, storage>>
     ELSE customCategories' = handleAddCategory(customCategories, name) /\ WriteCats
  /\ UNCHANGED <<notes, activeNoteId, isLoading, currentTheme, histVars, timerVars,
                 entryVars, isAnalyzing, call, now, created, undoCalls>>
  /\ Did("handleAddCategory")

\* The editor's category selector
HandleCategoryChange(category) ==
  /\ EditorMounted
  /\ category # note.category
  /\ Update([note EXCEPT !.category = category, !.updatedAt = now])
  /\ TaskFrame
  /\ UNCHANGED <<newTaskText, newTaskImportance, created>>
  /\ Did("handleCategoryChange")

\* The editor's Save button
HandleManualSave ==
  /\ EditorMounted
  /\ Update([note EXCEPT !.updatedAt = now])
  /\ TaskFrame
  /\ UNCHANGED <<newTaskText, newTaskImportance, created>>
  /\ Did("handleManualSave")

\* onClose() of the editor: setActiveNoteId(null)
CloseEditor ==
  /\ EditorMounted
  /\ activeNoteId' = NoId
  /\ EditorFresh
  /\ UNCHANGED <<notes, appVars, storage, call, now, created, undoCalls>>
  /\ Did("onClose")

\* handleSaveAndClose(): handleManualSave(); onClose()
HandleSaveAndClose ==
  /\ EditorMounted
  /\ notes' = handleUpdateNote(notes, [note EXCEPT !.updatedAt = now])
  /\ WriteNotes
  /\ activeNoteId' = NoId
  /\ EditorFresh
  /\ UNCHANGED <<appVars, call, now, created, undoCalls>>
  /\ Did("handleSaveAndClose")

\* handleArchive(): onUpdate({ ...note, isArchived: true, .. }); onClose()
HandleArchive ==
  /\ EditorMounted
  /\ ~note.isArchived
  /\ notes' = handleUpdateNote(notes, [note EXCEPT !.isArchived = TRUE, !.updatedAt = now])
  /\ WriteNotes
  /\ activeNoteId' = NoId
  /\ EditorFresh
  /\ UNCHANGED <<appVars, call, now, created, undoCalls>>
  /\ DidWith("handleArchive", note.id, 0)

-----------------------------------------------------------------------------
(* Initial states *)

InitApp ==
  /\ notes = <<>>
  /\ activeNoteId = NoId
  /\ isLoading = TRUE
  /\ currentTheme = "onyx"
  /\ customCategories = <<>>
  /\ history = EmptyHistory
  /\ isUndoRedoAction = FALSE
  /\ saveStatus = "idle"
  /\ saveTimeout = FALSE
  /\ displayTimers = 0
  /\ newTaskText = <<>>
  /\ newTaskImportance = "Medium"
  /\ taskFilter = "all"
  /\ isAnalyzing = FALSE
  /\ call = NoCall
  /\ now = 0
  /\ created = 0
  /\ undoCalls = 0
  /\ lastOp = Found("init", 0, 0)

CanRecord == Len(history.undo) < MaxUndoDepth

-----------------------------------------------------------------------------
(* SpecPages: one note; adding, closing and switching pages, undo and redo *)

InitPages ==
  /\ InitApp
  /\ \E stored \in {<<PagelessNote>>, <<PagedNote>>} :
       storage = [notes |-> Stored(stored), theme |-> "", cats |-> Absent]

NextPages ==
  \/ Load
  \/ CanRecord /\ AddPage
  \/ \E i \in 0..MaxPages : CanRecord /\ ClosePage(i)
  \/ \E i \in 0..MaxPages : SwitchPage(i)
  \/ Undo
  \/ Redo

SpecPages == InitPages /\ [][NextPages]_vars

-----------------------------------------------------------------------------
(* SpecHist: two notes, tracked edits, undo, redo and switching notes *)

InitHist ==
  /\ InitApp
  /\ storage = [notes |-> Stored(<<PagelessNote, PagedNote>>), theme |-> "",
                cats |-> Absent]

NextHist ==
  \/ Load
  \/ \E i \in DOMAIN notes : SelectNote(notes[i].id)
  \/ \E v \in Titles : CanRecord /\ HandleTitleChange(v)
  \/ \E v \in Contents : CanRecord /\ HandlePageContentChange(v)
  \/ Undo
  \/ Redo

SpecHist == InitHist /\ [][NextHist]_vars

\* The history at its limit: one note, title edits, undo() and redo()
InitCap ==
  /\ InitApp
  /\ storage = [notes |-> Stored(<<PagelessNote>>), theme |-> "", cats |-> Absent]

NextCap ==
  \/ Load
  \/ \E v \in Titles : HandleTitleChange(v)
  \/ CountedUndo
  \/ CountedRedo

SpecCap == InitCap /\ [][NextCap]_vars

\* The handlers that call saveHistory
TrackedOps == {"handleTitleChange", "handlePageContentChange", "handleAddTag",
               "removeTag", "addPage", "closePage"}

\* C4: the undo stack never holds more than 50 snapshots, and a tracked edit
\* recorded while it holds 50 drops the oldest and appends the newest
C4_UndoStackCapped ==
  /\ [](Len(history.undo) <= HISTORY_LIMIT)
  /\ [][(lastOp'.op \in TrackedOps /\ ~isUndoRedoAction
         /\ Len(history.undo) = HISTORY_LIMIT) =>
          history'.undo = Append(Tail(history.undo), Snapshot(note))]_vars

\* a tracked edit was recorded on a full undo stack after undo() and redo()
C4_Witness ==
  /\ lastOp.op = "handleTitleChange"
  /\ lastOp.depth = HISTORY_LIMIT
  /\ ~lastOp.flag
  /\ Len(history.undo) = HISTORY_LIMIT
  /\ undoCalls >= 2

-----------------------------------------------------------------------------
(* Claims on SpecHist *)

MaxRun == 2

\* The tracked edits the user can make in the editor state es
TrackedEditsOf(es) ==
  {e \in [kind : {"title"}, value : Titles] \cup [kind : {"content"}, value : Contents]
         \cup [kind : {"addTag"}, value : TagInputs]
         \cup [kind : {"removeTag"}, value : Range(es.note.tags)] :
     EditEnabled(es, e)}

RECURSIVE AfterEdits(_, _)
\* The editor states that n tracked edits lead to from es
AfterEdits(es, n) ==
  IF n = 0 THEN {es}
  ELSE UNION {{EditCall(x, e, FreshId, now) : e \in TrackedEditsOf(x)} :
                x \in AfterEdits(es, n - 1)}

\* The document state the history tracks
Doc(n) == [title |-> n.title, content |-> n.content, tags |-> n.tags]

RECURSIVE AfterUndos(_, _)
\* The editor state after n calls of undo()
AfterUndos(es, n) == IF n = 0 THEN es ELSE AfterUndos(UndoCall(es, now), n - 1)

\* C2: from an empty history, N tracked edits followed by N undo() calls give
\* back the title, content and tags from before the first edit, and the redo
\* stack then holds N entries (N = 1..MaxRun)
C2_EditsThenUndosRestore ==
  (EditorMounted /\ history = EmptyHistory) =>
    \A n \in 1..MaxRun : \A x \in AfterEdits(Es, n) :
      LET u == AfterUndos(x, n)
      IN Doc(u.note) = Doc(note) /\ Len(u.history.redo) = n

SameButUpdatedAt(a, b) == [a EXCEPT !.updatedAt = 0] = [b EXCEPT !.updatedAt = 0]

\* C3: with a non-empty undo stack, undo() then redo() leaves the note (but
\* for updatedAt) and both stacks as they were
C3_UndoRedoRoundTrip ==
  (EditorMounted /\ history.undo # <<>>) =>
    LET r == RedoCall(UndoCall(Es, now), now)
    IN SameButUpdatedAt(r.note, note) /\ r.history = history

\* C11: every tracked user edit leaves the redo stack empty, also the first
\* edit made right after an undo()
C11_EditClearsRedo ==
  [][lastOp'.op \in TrackedOps => history'.redo = <<>>]_vars

\* C18: undo() and redo() record no snapshot for their own replay (undo()
\* shortens the undo stack by one, redo() adds the one snapshot it takes
\* itself), and every tracked user edit, also the first one after an undo or
\* a redo, pushes the snapshot of the note before the edit onto the undo stack
C18_SuppressFlagOneShot ==
  [][/\ (lastOp'.op = "undo" /\ history.undo # <<>>) =>
          Len(history'.undo) = Len(history.undo) - 1
     /\ (lastOp'.op = "redo" /\ history.redo # <<>>) =>
          Len(history'.undo) = Len(history.undo) + 1
     /\ lastOp'.op \in TrackedOps =>
          /\ history'.undo # <<>>
          /\ Last(history'.undo) = Snapshot(note)
          /\ Len(history'.undo) = IF Len(history.undo) < HISTORY_LIMIT
                                  THEN Len(history.undo) + 1
                                  ELSE HISTORY_LIMIT]_vars

\* C12: when the open note becomes a note with another id both stacks are
\* empty afterwards, and undo() and redo() called then change nothing
C12_NoteSwitchResetsHistory ==
  [][(EditorMounted' /\ note'.id # note.id) =>
       /\ history' = EmptyHistory
       /\ UndoCall(Es, now)' = Es'
       /\ RedoCall(Es, now)' = Es']_vars

\* another note was selected while both stacks held a snapshot
C12_Witness ==
  /\ lastOp.op = "selectNote"
  /\ lastOp.depth > 0
  /\ lastOp.redoDepth > 0
  /\ EditorMounted
  /\ history = EmptyHistory

-----------------------------------------------------------------------------
(* Claims on SpecPages *)

\* C6: closePage on a note with exactly one page changes nothing: not the
\* note, not the history or the suppress flag, not the save indicator
C6_ClosePageSinglePageNoOp ==
  [][(lastOp'.op = "closePage" /\ Len(pagesOf(note)) = 1) =>
       UNCHANGED <<notes, history, isUndoRedoAction, saveStatus, saveTimeout,
                   displayTimers>>]_vars

\* closePage ran on the single implicit page of a note without pages
C6_Witness ==
  /\ lastOp.op = "closePage"
  /\ EditorMounted
  /\ ~note.hasPages
  /\ Len(pagesOf(note)) = 1

\* C7: closePage(index) on a note with at least two pages leaves
\* 0 <= activePageIndex < pages.length
C7_ClosePageKeepsIndexInBounds ==
  [][(lastOp'.op = "closePage" /\ Len(pagesOf(note)) >= 2) =>
       /\ activePageIndexOf(note)' >= 0
       /\ activePageIndexOf(note)' < Len(pagesOf(note))']_vars

\* closePage removed the active page, which was the last one
C7_Witness ==
  /\ lastOp.op = "closePage"
  /\ lastOp.arg = lastOp.was
  /\ lastOp.arg = Len(pagesOf(note))
  /\ note.hasPages

-----------------------------------------------------------------------------
(* SpecTasks: one note, its task list and the analysis call *)

InitTasks ==
  /\ InitApp
  /\ storage = [notes |-> Stored(<<PagelessNote>>), theme |-> "", cats |-> Absent]

TaskIds(n) == {n.tasks[i].id : i \in DOMAIN n.tasks}

NextTasks ==
  \/ Load
  \/ \E val \in TaskTexts : TaskEntryChange(val)
  \/ Len(note.tasks) < MaxTasks /\ CanCreate /\ AddTask
  \/ \E j \in DOMAIN note.tasks : \E status \in TaskStatus \ {note.tasks[j].status} :
       UpdateTaskStatus(note.tasks[j].id, status)
  \/ \E taskId \in TaskIds(note) : DeleteTask(taskId)
  \/ HandleAnalyze
  \/ \E result \in {NoResult} \cup Answers : AnalyzeReturn(result)

SpecTasks == InitTasks /\ [][NextTasks]_vars

-----------------------------------------------------------------------------
(* Claims on SpecTasks *)

\* C1: every task of every note has completed = (status = Completed), after
\* any sequence of addTask, updateTaskStatus, deleteTask and analysis merges
C1_CompletedIffStatus ==
  \A i \in DOMAIN notes : \A j \in DOMAIN notes[i].tasks :
    notes[i].tasks[j].completed = (notes[i].tasks[j].status = COMPLETED)

\* updateTaskStatus has completed one task and cancelled another
C1_Witness ==
  /\ lastOp.op = "updateTaskStatus"
  /\ EditorMounted
  /\ \E j \in DOMAIN note.tasks :
       note.tasks[j].status = COMPLETED /\ note.tasks[j].completed
  /\ \E j \in DOMAIN note.tasks :
       note.tasks[j].status = CANCELLED /\ ~note.tasks[j].completed

\* The note of ns with the given id, NoNote when none
NoteWithId(ns, id) ==
  IF FirstWithId(ns, id) = 0 THEN NoNote ELSE ns[FirstWithId(ns, id)]

\* The texts of the tasks of n, lower-cased
LowerTexts(n) == {toLowerCase(n.tasks[j].text) : j \in DOMAIN n.tasks}

\* C10: when an analysis result is applied, no task is added whose text
\* equals, case-insensitively, the text of a task the note holds at that
\* moment, and the note is updated only if such a new task is added
C10_NoDuplicateSuggestion ==
  [][lastOp'.op = "analyzeReturn" =>
       LET current == NoteWithId(notes, call.note.id)
           applied == NoteWithId(notes', call.note.id)
           added == {j \in DOMAIN applied.tasks :
                       applied.tasks[j].id \notin TaskIds(current)}
       IN /\ \A j \in added :
               toLowerCase(applied.tasks[j].text) \notin LowerTexts(current)
          /\ applied # current => added # {}]_vars

\* C17: applying an analysis result only appends tasks to the note as it is
\* at that moment: its tasks then begin with the tasks it had, and nothing
\* else of it changes but updatedAt
C17_ResultAppliedToCurrent ==
  [][lastOp'.op = "analyzeReturn" =>
       LET current == NoteWithId(notes, call.note.id)
           applied == NoteWithId(notes', call.note.id)
       IN /\ [applied EXCEPT !.tasks = <<>>, !.updatedAt = 0] =
               [current EXCEPT !.tasks = <<>>, !.updatedAt = 0]
          /\ Len(applied.tasks) >= Len(current.tasks)
          /\ SubSeq(applied.tasks, 1, Len(current.tasks)) = current.tasks]_vars

-----------------------------------------------------------------------------
(* SpecSort: a stored note with up to MaxSortLen tasks and the filter *)

MaxSortLen == 3

\* Stored tasks: the k-th has the k-th identifier after those of the notes
StoredTaskLists ==
  UNION {[1..n -> [status : {PENDING, COMPLETED, DROPPED},
                   importance : {LOW, CRITICAL, ""},
                   createdAt : {0, 1}]] : n \in 0..MaxSortLen}

StoredTasks(attrs) ==
  [k \in DOMAIN attrs |->
     [id |-> StoredIdsEnd + k, text |-> <<"x">>,
      completed |-> (attrs[k].status = COMPLETED), status |-> attrs[k].status,
      importance |-> attrs[k].importance, createdAt |-> attrs[k].createdAt]]

InitSort ==
  /\ InitApp
  /\ \E attrs \in StoredTaskLists :
       storage = [notes |-> Stored(<<[PagelessNote EXCEPT !.tasks = StoredTasks(attrs)]>>),
                  theme |-> "", cats |-> Absent]

NextSort ==
  \/ Load
  \/ \E filter \in {"all", "pending"} : SetTaskFilter(filter)

SpecSort == InitSort /\ [][NextSort]_vars

IsPending(task) == effectiveStatus(task) = PENDING

\* C5: with filter 'all' the displayed tasks have every Pending task before
\* every other task; within Pending and within the others the higher
\* importance score comes first, and with equal score the larger createdAt
C5_DisplayOrder ==
  (EditorMounted /\ taskFilter = "all") =>
    LET d == sortedTasks(note.tasks, taskFilter)
    IN \A i, j \in DOMAIN d :
         i < j =>
           /\ IsPending(d[j]) => IsPending(d[i])
           /\ IsPending(d[i]) = IsPending(d[j]) =>
                /\ getPriorityScore(d[i].importance) >= getPriorityScore(d[j].importance)
                /\ getPriorityScore(d[i].importance) = getPriorityScore(d[j].importance)
                     => d[i].createdAt >= d[j].createdAt

\* three tasks are displayed in another order than stored: a Pending task
\* of low importance before two critical ones that are not Pending, the
\* newer first
C5_Witness ==
  /\ EditorMounted
  /\ taskFilter = "all"
  /\ lastOp.op = "setTaskFilter"
  /\ LET d == sortedTasks(note.tasks, taskFilter)
     IN /\ Len(d) = 3
        /\ d # note.tasks
        /\ IsPending(d[1]) /\ d[1].importance = LOW
        /\ d[2].status = COMPLETED /\ d[2].importance = CRITICAL
        /\ d[3].status = DROPPED /\ d[3].importance = CRITICAL
        /\ d[2].createdAt > d[3].createdAt

-----------------------------------------------------------------------------
(* SpecEntry: the task-entry field of a note that already has a task; a     *)
(* text is entered into the empty field, or the field is cleared            *)

AllKeywords == CriticalWords \cup HighWords \cup MediumWords \cup LowWords

UpperChar(c) ==
  IF \E i \in 1..26 : LowerCase[i] = c
  THEN UpperCase[CHOOSE i \in 1..26 : LowerCase[i] = c]
  ELSE c

toUpperCase(s) == [i \in DOMAIN s |-> UpperChar(s[i])]

\* One word of each tier and one of none
PairWords ==
  {<<"a","s","a","p">>, <<"m","u","s","t">>, <<"n","o","r","m","a","l">>,
   <<"l","o","w">>, <<"h","i">>}

\* What is typed: every keyword alone, in capitals, glued to or set off from
\* its neighbours, and pairs of words of different tiers
EntryTexts ==
  {<<>>}
  \cup {toUpperCase(w) : w \in AllKeywords}
  \cup {before \o w \o after :
          before \in {<<>>, <<"x">>, <<"-">>}, w \in AllKeywords,
          after \in {<<>>, <<"_">>, <<"!">>}}
  \cup {toUpperCase(<<w1[1]>>) \o Tail(w1) \o <<" ">> \o w2 :
          w1 \in PairWords, w2 \in PairWords}

StoredTask == NewTask(StoredIdsEnd + 1, <<"x">>, LOW, 0)

InitEntry ==
  /\ InitApp
  /\ storage = [notes |-> Stored(<<[PagelessNote EXCEPT !.tasks = <<StoredTask>>]>>),
                theme |-> "", cats |-> Absent]

NextEntry ==
  \/ Load
  \/ \E val \in EntryTexts : (newTaskText = <<>> \/ val = <<>>) /\ TaskEntryChange(val)
  \/ \E lvl \in Importance : SetNewTaskImportance(lvl)

SpecEntry == InitEntry /\ [][NextEntry]_vars

\* The whole words of s: its maximal runs of word characters
WholeWords(s) ==
  {SubSeq(s, run[1], run[2]) :
     run \in {r \in (1..Len(s)) \X (1..Len(s)) :
                /\ r[1] <= r[2]
                /\ \A m \in r[1]..r[2] : IsWordChar(s[m])
                /\ (r[1] = 1 \/ ~IsWordChar(s[r[1] - 1]))
                /\ (r[2] = Len(s) \/ ~IsWordChar(s[r[2] + 1]))}}

\* The level of the first tier, from Critical down, a keyword of which is a
\* whole word of the text whatever its case
ExpectedLevel(text) ==
  LET words == WholeWords(toLowerCase(text))
  IN IF words \cap CriticalWords # {} THEN CRITICAL
     ELSE IF words \cap HighWords # {} THEN HIGH
     ELSE IF words \cap MediumWords # {} THEN MEDIUM
     ELSE IF words \cap LowWords # {} THEN LOW
     ELSE NoLevel

\* C8: typing in the task-entry field sets the pending importance to the level
\* of the highest tier with a keyword as a whole word of the text, in any
\* case, leaves it as it is when there is none, and changes no note or task
C8_DetectImportance ==
  [][lastOp'.op = "taskEntryChange" =>
       /\ detectImportance(newTaskText') = ExpectedLevel(newTaskText')
       /\ newTaskImportance' = IF ExpectedLevel(newTaskText') = NoLevel
                               THEN newTaskImportance
                               ELSE ExpectedLevel(newTaskText')
       /\ notes' = notes]_vars

\* "Low asap" was typed with Low selected: the selection is Critical and the
\* stored task is as it was
C8_Witness ==
  /\ lastOp.op = "taskEntryChange"
  /\ newTaskText = <<"L","o","w"," ","a","s","a","p">>
  /\ newTaskImportance = CRITICAL
  /\ EditorMounted
  /\ note.tasks = <<StoredTask>>

-----------------------------------------------------------------------------
(* SpecLoad: startup over what the three stored records may hold *)

ArchivedNote == [PagelessNote EXCEPT !.isArchived = TRUE]

StoredNotesSamples ==
  {Absent, Corrupt, Stored(<<>>), Stored(<<PagelessNote>>),
   Stored(<<PagelessNote, PagedNote>>), Stored(<<ArchivedNote, PagedNote>>)}

\* absent, three palettes, no palette, and a name every object inherits
StoredThemeSamples == {"", "onyx", "quartz", "nebula", "purple", "constructor"}

StoredCatsSamples == {Absent, Corrupt, Stored(<<>>), Stored(<<"Travel">>)}

InitLoad ==
  /\ InitApp
  /\ storage \in [notes : StoredNotesSamples, theme : StoredThemeSamples,
                  cats : StoredCatsSamples]

NextLoad ==
  \/ Load
  \/ \E i \in DOMAIN notes : SelectNote(notes[i].id)

SpecLoad == InitLoad /\ [][NextLoad]_vars

\* C9: startup recovers each stored record on its own: the theme is the
\* stored one if that is a theme and 'onyx' otherwise, the notes and the
\* custom categories are the stored ones unless absent or unparsable, and
\* the loading flag is cleared
C9_IndependentLoad ==
  [][lastOp'.op = "load" =>
       /\ ~isLoading'
       /\ currentTheme' = IF storage.theme \in ThemeIds THEN storage.theme ELSE "onyx"
       /\ notes' = IF storage.notes.kind = "array" THEN storage.notes.value ELSE <<>>
       /\ customCategories' = IF storage.cats.kind = "array"
                              THEN storage.cats.value ELSE <<>>]_vars

\* C13: storage is written in no step that ends with the loading flag set,
\* and not in the step that completes the initial load
C13_NoWriteByLoad ==
  [][(isLoading' \/ lastOp'.op = "load") => storage' = storage]_vars

-----------------------------------------------------------------------------
(* SpecScope: one note, stored active or archived; title edits, tasks, the  *)
(* category, restoring from the archive, undo and redo                      *)

InitScope ==
  /\ InitApp
  /\ \E stored \in {<<PagelessNote>>, <<ArchivedNote>>} :
       storage = [notes |-> Stored(stored), theme |-> "", cats |-> Absent]

NextScope ==
  \/ Load
  \/ \E i \in DOMAIN notes : SelectNote(notes[i].id)
  \/ \E v \in Titles : CanRecord /\ HandleTitleChange(v)
  \/ \E val \in TaskTexts : TaskEntryChange(val)
  \/ Len(note.tasks) < MaxTasks /\ CanCreate /\ AddTask
  \/ \E taskId \in TaskIds(note) : UpdateTaskStatus(taskId, COMPLETED)
  \/ \E category \in {"General", "Work"} : HandleCategoryChange(category)
  \/ EditorMounted /\ note.isArchived /\ RestoreNote(note.id)
  \/ Undo
  \/ Redo

SpecScope == InitScope /\ [][NextScope]_vars

\* C19: undo() and redo() leave the tasks, the category, isArchived and the id
\* of every note as they were when called (and change the number of notes
\* not at all)
C19_UndoScope ==
  [][lastOp'.op \in {"undo", "redo"} =>
       /\ Len(notes') = Len(notes)
       /\ \A i \in DOMAIN notes :
            /\ notes'[i].tasks = notes[i].tasks
            /\ notes'[i].category = notes[i].category
            /\ notes'[i].isArchived = notes[i].isArchived
            /\ notes'[i].id = notes[i].id]_vars

\* undo() ran on a non-empty stack and gave back the stored title of a note
\* that by then has a completed task and another category than stored
C19_Witness ==
  /\ lastOp.op = "undo"
  /\ lastOp.depth > 0
  /\ EditorMounted
  /\ note.title = PagelessNote.title
  /\ \E j \in DOMAIN note.tasks : note.tasks[j].status = COMPLETED
  /\ note.category = "Work"
  /\ ~note.isArchived

-----------------------------------------------------------------------------
(* SpecLife: the collection over its life: notes are created, imported,     *)
(* selected, retitled, archived, restored and deleted, and an analysis call *)
(* may be in flight                                                         *)

InitLife ==
  /\ InitApp
  /\ storage = [notes |-> Stored(<<PagelessNote>>), theme |-> "", cats |-> Absent]

Ids(ns) == {ns[i].id : i \in DOMAIN ns}

NextLife ==
  \/ Load
  \/ \E id \in Ids(notes) : SelectNote(id)
  \/ CreateNote("")
  \/ ImportText
  \/ \E id \in Ids(notes) : DeleteNote(id)
  \/ \E id \in Ids(notes) : PermanentDelete(id)
  \/ \E id \in Ids(notes) : RestoreNote(id)
  \/ HandleArchive
  \/ HandleAnalyze
  \/ \E result \in {NoResult} \cup Answers : AnalyzeReturn(result)

SpecLife == InitLife /\ [][NextLife]_vars

\* C15: handleDeleteNote on a note that is not archived keeps it, archived
\* and otherwise as it was; a note leaves the collection only by
\* handleDeleteNote on an archived note or by handlePermanentDelete;
\* handleRestoreNote clears isArchived and changes nothing else but updatedAt
C15_TwoStageDelete ==
  [][/\ (lastOp'.op = "handleDeleteNote" /\ ~NoteWithId(notes, lastOp'.arg).isArchived) =>
          /\ Len(notes') = Len(notes)
          /\ NoteWithId(notes', lastOp'.arg) =
               [NoteWithId(notes, lastOp'.arg) EXCEPT !.isArchived = TRUE,
                                                      !.updatedAt = now]
     /\ \A id \in Ids(notes) \ Ids(notes') :
          \/ lastOp'.op = "handlePermanentDelete" /\ lastOp'.arg = id
          \/ /\ lastOp'.op = "handleDeleteNote" /\ lastOp'.arg = id
             /\ NoteWithId(notes, id).isArchived
     /\ lastOp'.op = "handleRestoreNote" =>
          notes' = [i \in DOMAIN notes |->
                      IF notes[i].id = lastOp'.arg
                      THEN [notes[i] EXCEPT !.isArchived = FALSE, !.updatedAt = now]
                      ELSE notes[i]]]_vars

\* C16: a note leaves the collection only by a delete of that note and enters
\* it only by load, create or import; applying an analysis result changes no
\* note but the analysed one
C16_NoSilentLoss ==
  [][/\ \A id \in Ids(notes) \ Ids(notes') :
          /\ lastOp'.op \in {"handleDeleteNote", "handlePermanentDelete"}
          /\ lastOp'.arg = id
     /\ \A id \in Ids(notes') \ Ids(notes) :
          lastOp'.op \in {"load", "handleCreateNote", "handleImport"}
     /\ lastOp'.op = "analyzeReturn" =>
          \A id \in Ids(notes) \ {call.note.id} :
            NoteWithId(notes', id) = NoteWithId(notes, id)]_vars

-----------------------------------------------------------------------------
(* SpecStore: what the three stored records hold while the notes, the theme *)
(* and the custom categories change                                         *)

InitStore ==
  /\ InitApp
  /\ storage = [notes |-> Stored(<<PagelessNote>>), theme |-> "purple", cats |-> Corrupt]

NextStore ==
  \/ Load
  \/ CreateNote("Work")
  \/ ImportText
  \/ \E id \in Ids(notes) : DeleteNote(id)
  \/ \E id \in Ids(notes) : PermanentDelete(id)
  \/ \E id \in Ids(notes) : NoteWithId(notes, id).isArchived /\ RestoreNote(id)
  \/ HandleArchive
  \/ history.undo = <<>> /\ HandleTitleChange("")
  \/ \E themeId \in {"onyx", "quartz"} : ThemeChange(themeId)
  \/ \E name \in {"Travel", "Work"} : AddCategory(name)

SpecStore == InitStore /\ [][NextStore]_vars

\* C14: once loading is over, a step that changes the notes, the theme or
\* the custom categories ends with the changed value stored under its key,
\* whole
C14_StoredAfterChange ==
  [][~isLoading =>
       /\ notes' # notes => storage'.notes = Stored(notes')
       /\ currentTheme' # currentTheme => storage'.theme = currentTheme'
       /\ customCategories' # customCategories =>
            storage'.cats = Stored(customCategories')]_vars

\* a category was added after notes were created, imported and archived and
\* the theme was changed, and the three records hold what is in memory
C14_Witness ==
  /\ lastOp.op = "handleAddCategory"
  /\ customCategories = <<"Travel">>
  /\ currentTheme = "quartz"
  /\ Len(notes) >= 3
  /\ \E i \in DOMAIN notes : notes[i].isArchived
  /\ storage = [notes |-> Stored(notes), theme |-> currentTheme,
                cats |-> Stored(customCategories)]

-----------------------------------------------------------------------------
(* SpecTimer: the save indicator over title edits, its two timers and the   *)
(* selection of another note                                                *)

InitTimer ==
  /\ InitApp
  /\ storage = [notes |-> Stored(<<PagelessNote, PagedNote>>), theme |-> "",
                cats |-> Absent]

NextTimer ==
  \/ Load
  \/ \E id \in Ids(notes) : SelectNote(id)
  \/ \E v \in Titles : CanRecord /\ HandleTitleChange(v)
  \/ SaveTimeoutFires
  \/ DisplayDelayElapses

SpecTimer == InitTimer /\ [][NextTimer]_vars

\* The handlers that call triggerSaveIndicator
IndicatorOps ==
  TrackedOps \cup {"undo", "redo", "addTask", "updateTaskStatus", "deleteTask",
                   "handleCategoryChange", "handleManualSave"}

\* C20: the indicator is never idle while the debounce timer is pending, and
\* it changes only from idle or saved to saving on an edit, from saving to
\* saved when the debounce timer fires, from saved to idle when the display
\* delay elapses, and to idle when another note is shown
C20_SaveIndicator ==
  /\ []((EditorMounted /\ saveTimeout) => saveStatus # "idle")
  /\ [][saveStatus' # saveStatus =>
          \/ /\ saveStatus \in {"idle", "saved"} /\ saveStatus' = "saving"
             /\ lastOp'.op \in IndicatorOps
          \/ /\ saveStatus = "saving" /\ saveStatus' = "saved"
             /\ lastOp'.op = "saveTimeoutFires"
          \/ /\ saveStatus = "saved" /\ saveStatus' = "idle"
             /\ lastOp'.op = "displayDelayElapses"
          \/ /\ saveStatus' = "idle"
             /\ note'.id # note.id]_vars

\* C21: at most one timer of the save indicator, debounce or display delay,
\* is pending at any time
C21_SingleTimer == (IF saveTimeout THEN 1 ELSE 0) + displayTimers <= 1

-----------------------------------------------------------------------------
(* SpecControls: the controls rendered on each task of the list *)

\* The checkbox: status === COMPLETED ? PENDING : COMPLETED
checkboxStatus(task) ==
  IF effectiveStatus(task) = COMPLETED THEN PENDING ELSE COMPLETED

\* The flow buttons rendered for a task, by the status each one sets
flowButtons(task) ==
  IF effectiveStatus(task) = PENDING THEN {COMPLETED, DROPPED, CANCELLED} ELSE {PENDING}

TaskWithId(n, taskId) == n.tasks[FirstWithId(n.tasks, taskId)]

TaskCheckbox(taskId) ==
  /\ EditorMounted
  /\ Update(updateTaskStatus(note, taskId, checkboxStatus(TaskWithId(note, taskId)), now))
  /\ TaskFrame
  /\ UNCHANGED <<newTaskText, newTaskImportance, created>>
  /\ DidWith("taskCheckbox", taskId, 0)

TaskFlowButton(taskId, status) ==
  /\ EditorMounted
  /\ status \in flowButtons(TaskWithId(note, taskId))
  /\ Update(updateTaskStatus(note, taskId, status, now))
  /\ TaskFrame
  /\ UNCHANGED <<newTaskText, newTaskImportance, created>>
  /\ DidWith("taskFlowButton", taskId, 0)

\* A stored task by its status and completed fields ("" is a record without status)
StoredTaskAs(k, status, completed) ==
  [id |-> StoredIdsEnd + k, text |-> <<"x">>, completed |-> completed,
   status |-> status, importance |-> LOW, createdAt |-> 0]

StoredStatusPairs ==
  {<<st, st = COMPLETED>> : st \in TaskStatus} \cup {<<"", TRUE>>, <<"", FALSE>>}

InitControls ==
  /\ InitApp
  /\ \E a \in StoredStatusPairs, b \in {<<PENDING, FALSE>>, <<DROPPED, FALSE>>} :
       storage = [notes |-> Stored(<<[PagelessNote EXCEPT !.tasks =
                                        <<StoredTaskAs(1, a[1], a[2]),
                                          StoredTaskAs(2, b[1], b[2])>>]>>),
                  theme |-> "", cats |-> Absent]

NextControls ==
  \/ Load
  \/ \E taskId \in TaskIds(note) : TaskCheckbox(taskId)
  \/ \E taskId \in TaskIds(note) : \E status \in TaskStatus : TaskFlowButton(taskId, status)
  \/ \E taskId \in TaskIds(note) : DeleteTask(taskId)
  \/ SaveTimeoutFires
  \/ DisplayDelayElapses

SpecControls == InitControls /\ [][NextControls]_vars

TaskControls == {"taskCheckbox", "taskFlowButton"}

\* C22: no single control of a task moves it from one status other than
\* Pending directly to a different status other than Pending
C22_ThroughPending ==
  [][lastOp'.op \in TaskControls =>
       \A i \in DOMAIN note.tasks :
         LET old == effectiveStatus(note.tasks[i])
             new == effectiveStatus(note'.tasks[i])
         IN old # new => (old = PENDING \/ new = PENDING)]_vars

-----------------------------------------------------------------------------

ActiveIndexValid(n) ==
  /\ activePageIndexOf(n) >= 0
  /\ activePageIndexOf(n) < Len(pagesOf(n))

\* C23: closePage(index) on a note with more than one page removes the page
\* at index and keeps the others in order, and a page that was active and is
\* not the one removed is the active page afterwards
C23_ClosePageKeepsActivePage ==
  [][(lastOp'.op = "closePage" /\ Len(pagesOf(note)) >= 2 /\ ActiveIndexValid(note)) =>
       /\ pagesOf(note)' = RemoveAt(pagesOf(note), lastOp'.arg)
       /\ lastOp'.arg # activePageIndexOf(note) =>
            currentPageOf(note)'.id = currentPageOf(note).id]_vars

-----------------------------------------------------------------------------
(* SpecSwitch: switchPage as a function of its index *)

\* switchPage(index) whatever the index: the handler tests nothing
SwitchPageCall(index) ==
  /\ EditorMounted
  /\ notes' = handleUpdateNote(notes, switchPage(note, index, now))
  /\ WriteNotes
  /\ UNCHANGED <<histVars, timerVars, created>>
  /\ Frame
  /\ DidWith("switchPageCall", index, activePageIndexOf(note))

\* The indexes handed to switchPage: one below the pages, those of the pages
\* and those past the last page
SwitchIndexes == {-2} \cup 0..MaxPages

InitSwitch ==
  /\ InitApp
  /\ \E stored \in {<<PagelessNote>>, <<PagedNote>>} :
       storage = [notes |-> Stored(stored), theme |-> "", cats |-> Absent]

NextSwitch ==
  \/ Load
  \/ \E index \in SwitchIndexes : SwitchPageCall(index)
  \/ CanRecord /\ AddPage
  \/ SaveTimeoutFires
  \/ DisplayDelayElapses

SpecSwitch == InitSwitch /\ [][NextSwitch]_vars

\* C24: switchPage(index) with an index below 0 or not below the number of
\* pages changes nothing; with an index of a page it makes that page the
\* active one and changes no page, title, tag or task
C24_SwitchPageChecked ==
  [][lastOp'.op = "switchPageCall" =>
       IF lastOp'.arg < 0 \/ lastOp'.arg >= Len(pagesOf(note))
       THEN note' = note
       ELSE /\ activePageIndexOf(note)' = lastOp'.arg
            /\ pagesOf(note)' = pagesOf(note)
            /\ note'.title = note.title
            /\ note'.tags = note.tags
            /\ note'.tasks = note.tasks]_vars

\* .. the second half alone, which the handler does keep
SwitchPageValidIndex ==
  [][(lastOp'.op = "switchPageCall" /\ lastOp'.arg >= 0
      /\ lastOp'.arg < Len(pagesOf(note))) =>
       /\ activePageIndexOf(note)' = lastOp'.arg
       /\ pagesOf(note)' = pagesOf(note)
       /\ note'.title = note.title
       /\ note'.tags = note.tags
       /\ note'.tasks = note.tasks]_vars

-----------------------------------------------------------------------------
(* SpecMirror: note.content against the first page of the note *)

\* The textarea's value as substring(0, start), substring(start, end) and
\* substring(end), with the caret at the start and nothing selected
Selections(text) == {<<"", "", text>>}

\* insertFormatting(prefix, suffix) with the textarea's selection sel
insertFormatting(n, prefix, suffix, sel, t) ==
  LET newContent == sel[1] \o prefix \o sel[2] \o suffix \o sel[3]
      updatedPages == SetAt(pagesOf(n), activePageIndexOf(n),
                            [currentPageOf(n) EXCEPT !.content = newContent])
  IN [n EXCEPT !.hasPages = TRUE, !.pages = updatedPages, !.updatedAt = t]

InsertFormatting(prefix, suffix) ==
  /\ EditorMounted
  /\ currentPageOf(note) # Hole
  /\ currentPageOf(note).content \in Contents
  /\ \E sel \in Selections(currentPageOf(note).content) :
       notes' = handleUpdateNote(notes, insertFormatting(note, prefix, suffix, sel, now))
  /\ WriteNotes
  /\ UNCHANGED <<histVars, timerVars, created>>
  /\ Frame
  /\ Did("insertFormatting")

\* A stored note with two pages; the id of the second is none addPage gives
TwoPageNote ==
  [PagedNote EXCEPT
     !.pages = <<PagedNote.pages[1],
                 [id |-> StoredIdsEnd + MaxCreated + 1, title |-> "Page 2",
                  content |-> "draft notes"]>>]

InitMirror ==
  /\ InitApp
  /\ storage = [notes |-> Stored(<<TwoPageNote>>), theme |-> "", cats |-> Absent]

NextMirror ==
  \/ Load
  \/ history.undo = <<>> /\ HandlePageContentChange("draft notes")
  \/ currentPageOf(note).content = "" /\ InsertFormatting("**", "**")
  \/ Len(pagesOf(note)) < 2 /\ history.undo = <<>> /\ AddPage
  \/ \E i \in 0..MaxPages : history.undo = <<>> /\ ClosePage(i)
  \/ Undo
  \/ Redo

SpecMirror == InitMirror /\ [][NextMirror]_vars

Mirrored(n) == (n.hasPages /\ n.pages # <<>>) => n.content = n.pages[1].content

MirrorOps == {"handlePageContentChange", "insertFormatting", "closePage", "addPage",
              "undo", "redo"}

\* C25: after handlePageContentChange, insertFormatting, closePage, addPage,
\* undo and redo the content of a note with pages is the content of its
\* first page
C25_ContentMirrorsFirstPage ==
  [][lastOp'.op \in MirrorOps => Mirrored(note')]_vars

\* .. closePage alone, on a note whose content did mirror its first page
ClosePageMirrors ==
  [][(lastOp'.op = "closePage" /\ Mirrored(note)) => Mirrored(note')]_vars

-----------------------------------------------------------------------------
(* SpecFilter: the displayed task list of both editor versions, with stored
   tasks that have no status *)

\* The comparator of the first editor version: a.status and b.status as stored
compareTasksFirst(a, b) ==
  LET scoreA == getPriorityScore(a.importance)
      scoreB == getPriorityScore(b.importance)
  IN IF a.status # b.status /\ a.status = PENDING THEN -1
     ELSE IF a.status # b.status /\ b.status = PENDING THEN 1
     ELSE IF scoreA # scoreB THEN scoreB - scoreA
     ELSE b.createdAt - a.createdAt

RECURSIVE InsertSortedFirst(_, _)
InsertSortedFirst(s, x) ==
  IF s = <<>> THEN <<x>>
  ELSE IF compareTasksFirst(Last(s), x) > 0
       THEN Append(InsertSortedFirst(Front(s), x), Last(s))
       ELSE Append(s, x)

RECURSIVE SortFirst(_)
SortFirst(s) ==
  IF s = <<>> THEN <<>> ELSE InsertSortedFirst(SortFirst(Front(s)), Last(s))

\* const sortedTasks = [...note.tasks].filter(..).sort(..) of the first version
sortedTasksFirst(tasks, filter) ==
  SortFirst(SelectSeq(tasks, LAMBDA task :
    CASE filter = "pending" -> task.status = PENDING
      [] filter = "completed" -> task.status = COMPLETED
      [] OTHER -> TRUE))

\* Stored task lists: each task with or without status, two importances
StoredFilterLists ==
  UNION {[1..n -> StoredStatusPairs \X {LOW, CRITICAL}] : n \in 0..MaxTasks}

InitFilter ==
  /\ InitApp
  /\ \E attrs \in StoredFilterLists :
       storage = [notes |-> Stored(<<[PagelessNote EXCEPT !.tasks =
                    [k \in DOMAIN attrs |->
                       [StoredTaskAs(k, attrs[k][1][1], attrs[k][1][2])
                          EXCEPT !.importance = attrs[k][2], !.createdAt = k]]]>>),
                  theme |-> "", cats |-> Absent]

NextFilter ==
  \/ Load
  \/ \E filter \in TaskFilters : SetTaskFilter(filter)

SpecFilter == InitFilter /\ [][NextFilter]_vars

\* The status a filter other than 'all' stands for
StatusOfFilter(filter) ==
  CASE filter = "pending" -> PENDING
    [] filter = "completed" -> COMPLETED
    [] filter = "dropped" -> DROPPED
    [] filter = "cancelled" -> CANCELLED

\* The list d shows the tasks the filter selects by their effective status,
\* each once, with every Pending task before every other task
DisplaysFilter(d, tasks, filter) ==
  LET selected == {task \in Range(tasks) :
                     filter = "all" \/ effectiveStatus(task) = StatusOfFilter(filter)}
  IN /\ Range(d) = selected
     /\ Len(d) = Cardinality(selected)
     /\ \A i, j \in DOMAIN d : i < j => (IsPending(d[j]) => IsPending(d[i]))

\* The second editor version alone
SecondVersionDisplays ==
  EditorMounted => DisplaysFilter(sortedTasks(note.tasks, taskFilter), note.tasks, taskFilter)

\* C26: under a filter pending, completed, dropped or cancelled the displayed
\* list holds exactly the tasks of that effective status, under 'all' it is a
\* permutation of note.tasks; a task stored without status is placed by its
\* effective status; and a filter change leaves note.tasks as it is (the first
\* editor version has the filters all, pending and completed)
C26_DisplayedTasks ==
  /\ [](EditorMounted =>
          /\ DisplaysFilter(sortedTasks(note.tasks, taskFilter), note.tasks, taskFilter)
          /\ taskFilter \in {"all", "pending", "completed"} =>
               DisplaysFilter(sortedTasksFirst(note.tasks, taskFilter), note.tasks,
                              taskFilter))
  /\ [][lastOp'.op = "setTaskFilter" => note'.tasks = note.tasks]_vars

-----------------------------------------------------------------------------

\* C27: the effective page list of the note in the editor is never empty
\* and activePageIndex is the index of one of its pages
C27_ActivePageExists ==
  EditorMounted => (Len(pagesOf(note)) > 0 /\ ActiveIndexValid(note))

-----------------------------------------------------------------------------
(* SpecImport: the collection under create, import, update, delete and restore *)

MaxNotes == 3

\* handleExport('json') writes JSON.stringify(note); the Sidebar's import of a
\* .json file parses it and hands [parsed] to onImport
ImportJson(exported) ==
  /\ ~isLoading
  /\ Len(notes) < MaxNotes
  /\ notes' = handleImport(notes, <<exported>>)
  /\ UNCHANGED <<activeNoteId, appVars, call, now, created, undoCalls>>
  /\ WriteNotes
  /\ EditorFollows
  /\ DidWith("importJson", exported.id, 0)

InitImport ==
  /\ InitApp
  /\ storage = [notes |-> Stored(<<PagelessNote>>), theme |-> "", cats |-> Absent]

NextImport ==
  \/ Load
  \/ \E i \in DOMAIN notes : ImportJson(notes[i])
  \/ Len(notes) < MaxNotes /\ CreateNote("")
  \/ Len(notes) < MaxNotes /\ ImportText
  \/ \E v \in Titles : history.undo = <<>> /\ HandleTitleChange(v)
  \/ \E i \in DOMAIN notes : DeleteNote(notes[i].id)
  \/ \E i \in DOMAIN notes : PermanentDelete(notes[i].id)
  \/ \E i \in DOMAIN notes : RestoreNote(notes[i].id)

SpecImport == InitImport /\ [][NextImport]_vars

\* C28: no two notes of the collection have the same id
C28_UniqueIds ==
  \A i, j \in DOMAIN notes : i # j => notes[i].id # notes[j].id

-----------------------------------------------------------------------------

\* C29: a stored note collection that does not parse stays under its key in
\* every step that leaves the collection as it is; the load alone does not
\* replace it
C29_UnparsedNotesKept ==
  [][(storage.notes.kind = "corrupt" /\ notes' = notes) =>
       storage'.notes = storage.notes]_vars

-----------------------------------------------------------------------------
(* SpecTimerFair: SpecTimer with the timers of the browser, which run every
   pending timeout *)

SpecTimerFair ==
  /\ InitTimer
  /\ [][NextTimer]_vars
  /\ WF_vars(SaveTimeoutFires)
  /\ WF_vars(DisplayDelayElapses)

\* C30: if from some step on no step changes the note, the save indicator is
\* idle from some state on and stays idle
C30_EventuallyIdle ==
  <>[][lastOp'.op \notin IndicatorOps]_vars => <>[](saveStatus = "idle")

\* the indicator went back to idle with no timer left, the editor on a note
C30_Witness ==
  /\ EditorMounted
  /\ lastOp.op = "displayDelayElapses"
  /\ saveStatus = "idle"
  /\ ~saveTimeout
  /\ displayTimers = 0

=============================================================================
